---- MODULE Spec2Model ----
(***************************************************************************)
(* A model of starcluster/utils.py: the generators permute and chunk_list, *)
(* the version comparison program_version_greater, and the codec           *)
(* dump_compress_encode / decode_uncompress_load with the library          *)
(* functions it calls (pickle, json, zlib, base64, UTF-8).                 *)
(*                                                                         *)
(* Bytes are sequences of integers 0..255, text is a sequence of code      *)
(* points.  Version strings are sequences of one-character strings.        *)
(***************************************************************************)
EXTENDS Integers, Sequences, FiniteSets, TLC

VARIABLES
    \* permute
    a, a_in, yielded, ppc,
    \* chunk_list
    ls, items, itms, i_cl, chunks, cpc,
    \* program_version_greater
    ver1, ver2, greater, vpc,
    \* dump_compress_encode / decode_uncompress_load
    obj, use_json, chunk_size, p, string, via, out, pc,
    \* the interpreter the module runs under (six.PY2 / six.PY3)
    PY

codecVars == <<obj, use_json, chunk_size, p, string, via, out, pc>>
permVars  == <<a, a_in, yielded, ppc>>
chunkVars == <<ls, items, itms, i_cl, chunks, cpc>>
verVars   == <<ver1, ver2, greater, vpc>>
vars      == <<codecVars, permVars, chunkVars, verVars, PY>>

(***************************************************************************)
(* Bounds of the model.                                                    *)
(***************************************************************************)
MaxElem       == 3   \* permute: list elements are 1..MaxElem
MaxPermLen    == 4   \* permute: lists of length 0..MaxPermLen
MaxLs         == 5   \* chunk_list: lists of length 0..MaxLs
MaxItems      == 3   \* chunk_list: items in 1..MaxItems
MaxVerNum     == 10  \* versions: each numeric component is 0..MaxVerNum
MaxComponents == 2   \* versions: 1..MaxComponents dotted components
MaxPreNum     == 1   \* versions: the pre-release number is 0..MaxPreNum
MaxInt        == 1   \* codec: the int values are 0..MaxInt (and 300)
MaxStrLen     == 1   \* codec: the str values have at most MaxStrLen characters
MaxListLen    == 2   \* codec: the list values have at most MaxListLen items
MaxChunk      == 5   \* codec: chunk_size is None or in -2..MaxChunk

(***************************************************************************)
(* Sequence helpers (Python list operations).                              *)
(***************************************************************************)
Reverse(s) == [k \in 1..Len(s) |-> s[Len(s) + 1 - k]]

\* Python's s[lo:hi] for 0 <= lo, with hi clipped to len(s) (0-based, hi exclusive)
Slice(s, lo, hi) ==
    LET h == IF hi > Len(s) THEN Len(s) ELSE hi
    IN  IF lo >= h THEN <<>> ELSE SubSeq(s, lo + 1, h)

RECURSIVE Concat(_)
Concat(ss) == IF ss = <<>> THEN <<>> ELSE Head(ss) \o Concat(Tail(ss))

SeqsUpTo(S, n) == UNION {[1..k -> S] : k \in 0..n}

\* lexicographic order on integer sequences (Python's list <)
RECURSIVE LexLess(_, _)
LexLess(s, t) ==
    IF s = <<>> THEN t # <<>>
    ELSE IF t = <<>> THEN FALSE
    ELSE IF Head(s) # Head(t) THEN Head(s) < Head(t)
    ELSE LexLess(Tail(s), Tail(t))

\* list.sort(): insertion into an ascending list
RECURSIVE Insert(_, _)
Insert(x, s) ==
    IF s = <<>> THEN <<x>>
    ELSE IF x <= Head(s) THEN <<x>> \o s
    ELSE <<Head(s)>> \o Insert(x, Tail(s))

RECURSIVE Sort(_)
Sort(s) == IF s = <<>> THEN <<>> ELSE Insert(Head(s), Sort(Tail(s)))

(***************************************************************************)
(* permute(a): one action per resumption of the generator.                 *)
(* Indices are the source's 0-based ones; a[k] of the source is a[k+1].    *)
(***************************************************************************)
\* the inner "while 1": i runs from last-2 down to first; -1 when the scan
\* reaches first without finding a[i] < a[i+1]
RECURSIVE FindI(_, _)
FindI(s, i) ==
    IF s[i + 1] < s[i + 2] THEN i
    ELSE IF i = 0 THEN -1
    ELSE FindI(s, i - 1)

\* "while not (a[i] < a[j]): j = j - 1", from j = last - 1
RECURSIVE FindJ(_, _, _)
FindJ(s, i, j) == IF s[i + 1] < s[j + 1] THEN j ELSE FindJ(s, i, j - 1)

Swap(s, i, j) == [s EXCEPT ![i + 1] = s[j + 1], ![j + 1] = s[i + 1]]

KeepTail(s, i) == s

\* r = a[i+1:last]; r.reverse(); a[i+1:last] = r
ReverseTail(s, i) == Slice(s, 0, i + 1) \o Reverse(Slice(s, i + 1, Len(s)))

\* the body executed between two yields, given that FindI found i
Advance(s, i) == ReverseTail(Swap(s, i, FindJ(s, i, Len(s) - 1)), i)

PermuteStart ==
    /\ ppc = "start"
    /\ a' = Sort(a)
    /\ yielded' = <<Sort(a)>>
    /\ ppc' = IF Len(a) <= 1 THEN "done" ELSE "loop"
    /\ UNCHANGED <<a_in, chunkVars, verVars, codecVars, PY>>

PermuteNext ==
    /\ ppc = "loop"
    /\ LET i == FindI(a, Len(a) - 2)
       IN  IF i = -1
           THEN /\ a' = Reverse(a)
                /\ ppc' = "done"
                /\ UNCHANGED yielded
           ELSE /\ a' = Advance(a, i)
                /\ yielded' = Append(yielded, Advance(a, i))
                /\ UNCHANGED ppc
    /\ UNCHANGED <<a_in, chunkVars, verVars, codecVars, PY>>

PermIdle == a = <<>> /\ a_in = <<>> /\ yielded = <<>> /\ ppc = "idle"

(***************************************************************************)
(* chunk_list(ls, items): one action per iteration of the for loop, one    *)
(* for the code after the loop.                                            *)
(***************************************************************************)
LateBoundary(i, n) == i > n /\ i % n = 0

\* "if i >= items and i % items == 0"
Boundary(i, n) == i >= n /\ i % n = 0

ChunkListIter ==
    /\ cpc = "loop"
    /\ i_cl < Len(ls)
    /\ LET v == ls[i_cl + 1]
       IN  IF Boundary(i_cl, items)
           THEN /\ chunks' = Append(chunks, itms)
                /\ itms' = <<v>>
           ELSE /\ itms' = Append(itms, v)
                /\ UNCHANGED chunks
    /\ i_cl' = i_cl + 1
    /\ UNCHANGED <<ls, items, cpc, permVars, verVars, codecVars, PY>>

ChunkListEnd ==
    /\ cpc = "loop"
    /\ i_cl = Len(ls)
    /\ chunks' = IF itms # <<>> THEN Append(chunks, itms) ELSE chunks
    /\ cpc' = "done"
    /\ UNCHANGED <<ls, items, itms, i_cl, permVars, verVars, codecVars, PY>>

ChunkIdle ==
    /\ ls = <<>> /\ items = 1 /\ itms = <<>> /\ i_cl = 0
    /\ chunks = <<>> /\ cpc = "idle"

(***************************************************************************)
(* program_version_greater(ver1, ver2) = LooseVersion(ver1) >              *)
(* LooseVersion(ver2).  LooseVersion.parse splits the string with          *)
(* (\d+ | [a-z]+ | \.), drops the dots and the empty pieces and turns the  *)
(* digit runs into ints; the comparison is Python's list comparison.       *)
(***************************************************************************)
Digits == <<"0", "1", "2", "3", "4", "5", "6", "7", "8", "9">>
Letters == <<"a", "b", "c", "r">>

IsDigit(c) == \E d \in 1..10 : Digits[d] = c
DigitVal(c) == (CHOOSE d \in 1..10 : Digits[d] = c) - 1
LetterOrd(c) == CHOOSE k \in 1..Len(Letters) : Letters[k] = c
CharClass(c) == IF c = "." THEN "dot" ELSE IF IsDigit(c) THEN "digit" ELSE "alpha"

\* str(n) for n >= 0
RECURSIVE NumStr(_)
NumStr(n) == IF n < 10 THEN <<Digits[n + 1]>> ELSE NumStr(n \div 10) \o <<Digits[(n % 10) + 1]>>

\* int(x) of a run of digits
RECURSIVE IntOf(_, _)
IntOf(cs, acc) == IF cs = <<>> THEN acc ELSE IntOf(Tail(cs), acc * 10 + DigitVal(Head(cs)))

\* length of the maximal run of characters of class cl at the head of s
RECURSIVE RunLen(_, _)
RunLen(s, cl) ==
    IF s = <<>> \/ CharClass(Head(s)) # cl THEN 0 ELSE 1 + RunLen(Tail(s), cl)

\* LooseVersion.parse: the list of components
RECURSIVE Parse(_)
Parse(s) ==
    IF s = <<>> THEN <<>>
    ELSE LET cl == CharClass(Head(s))
         IN  IF cl = "dot" THEN Parse(Tail(s))
             ELSE LET n == RunLen(s, cl)
                      run == SubSeq(s, 1, n)
                      rest == SubSeq(s, n + 1, Len(s))
                  IN  IF cl = "digit"
                      THEN <<[t |-> "int", n |-> IntOf(run, 0), s |-> <<>>]>> \o Parse(rest)
                      ELSE <<[t |-> "str", n |-> 0, s |-> run]>> \o Parse(rest)

\* str < str: by code point, then by length
RECURSIVE StrLess(_, _)
StrLess(s, t) ==
    IF s = <<>> THEN t # <<>>
    ELSE IF t = <<>> THEN FALSE
    ELSE IF Head(s) # Head(t) THEN LetterOrd(Head(s)) < LetterOrd(Head(t))
    ELSE StrLess(Tail(s), Tail(t))

\* x < y for two components that differ: "True", "False" or "TypeError"
\* (Python 3 refuses to order an int and a str; Python 2 puts numbers first)
ItemLess(x, y, py) ==
    IF x.t = "int" /\ y.t = "int" THEN (IF x.n < y.n THEN "True" ELSE "False")
    ELSE IF x.t = "str" /\ y.t = "str" THEN (IF StrLess(x.s, y.s) THEN "True" ELSE "False")
    ELSE IF py = 3 THEN "TypeError"
    ELSE IF x.t = "int" THEN "True" ELSE "False"

\* list < list: the first differing pair decides, else the shorter is less
RECURSIVE ListLess(_, _, _)
ListLess(v, w, py) ==
    IF v = <<>> THEN (IF w # <<>> THEN "True" ELSE "False")
    ELSE IF w = <<>> THEN "False"
    ELSE IF Head(v) # Head(w) THEN ItemLess(Head(v), Head(w), py)
    ELSE ListLess(Tail(v), Tail(w), py)

\* LooseVersion._cmp: 0 when equal, -1 when less, 1 when greater
VersionCmp(v, w, py) ==
    IF v = w THEN "0"
    ELSE LET lt == ListLess(v, w, py)
         IN  IF lt = "TypeError" THEN "TypeError"
             ELSE IF lt = "True" THEN "-1"
             ELSE LET gt == ListLess(w, v, py)
                  IN  IF gt = "TypeError" THEN "TypeError"
                      ELSE IF gt = "True" THEN "1" ELSE "NotImplemented"

\* LooseVersion.__gt__: c = self._cmp(other); return c > 0
program_version_greater(v1, v2, py) ==
    LET c == VersionCmp(Parse(v1), Parse(v2), py)
    IN  IF c = "TypeError" THEN "TypeError"
        ELSE IF c = "1" THEN "True" ELSE "False"

\* the dotted numeric versions and their pre-releases
RECURSIVE Dotted(_)
Dotted(ns) ==
    IF Len(ns) = 1 THEN NumStr(ns[1])
    ELSE NumStr(Head(ns)) \o <<".">> \o Dotted(Tail(ns))

Releases == {Dotted(ns) : ns \in UNION {[1..k -> 0..MaxVerNum] : k \in 1..MaxComponents}}
Suffixes == {<<"a">>, <<"b">>, <<"r", "c">>}
PreReleasesOf(v) == {v \o sf \o NumStr(n) : sf \in Suffixes, n \in 0..MaxPreNum}
AllVersions == Releases \cup UNION {PreReleasesOf(v) : v \in Releases}

Compare ==
    /\ vpc = "start"
    /\ greater' = program_version_greater(ver1, ver2, PY)
    /\ vpc' = "done"
    /\ UNCHANGED <<ver1, ver2, PY, permVars, chunkVars, codecVars>>

VerIdle == ver1 = <<>> /\ ver2 = <<>> /\ greater = "none" /\ vpc = "idle"

(***************************************************************************)
(* base64 (standard alphabet, padded with "=", code 61).  Text is a        *)
(* sequence of ASCII codes.                                                *)
(***************************************************************************)
B64Char(k) ==
    IF k < 26 THEN 65 + k
    ELSE IF k < 52 THEN 97 + (k - 26)
    ELSE IF k < 62 THEN 48 + (k - 52)
    ELSE IF k = 62 THEN 43 ELSE 47

\* binascii's table_a2b_base64: 0..63 for a character of the alphabet, 64 otherwise
B64Index(c) ==
    IF c >= 65 /\ c <= 90 THEN c - 65
    ELSE IF c >= 97 /\ c <= 122 THEN c - 97 + 26
    ELSE IF c >= 48 /\ c <= 57 THEN c - 48 + 52
    ELSE IF c = 43 THEN 62
    ELSE IF c = 47 THEN 63 ELSE 64

\* base64.b64encode
RECURSIVE b64encode(_)
b64encode(b) ==
    IF b = <<>> THEN <<>>
    ELSE IF Len(b) = 1
    THEN <<B64Char(b[1] \div 4), B64Char((b[1] % 4) * 16), 61, 61>>
    ELSE IF Len(b) = 2
    THEN <<B64Char(b[1] \div 4), B64Char((b[1] % 4) * 16 + b[2] \div 16),
           B64Char((b[2] % 16) * 4), 61>>
    ELSE <<B64Char(b[1] \div 4), B64Char((b[1] % 4) * 16 + b[2] \div 16),
           B64Char((b[2] % 16) * 4 + b[3] \div 64), B64Char(b[3] % 64)>>
         \o b64encode(SubSeq(b, 4, Len(b)))

\* binascii.a2b_base64 without strict_mode, which is what
\* base64.b64decode(s) calls: a character outside the alphabet is skipped,
\* a completed pad sequence ends the parse, and a quad left open at the end
\* is an error.
RECURSIVE a2b_base64(_, _, _, _, _, _)
a2b_base64(s, pos, quad_pos, leftchar, pads, acc) ==
    IF pos > Len(s)
    THEN IF quad_pos # 0
         THEN [ok |-> FALSE, bytes |-> <<>>]
         ELSE [ok |-> TRUE, bytes |-> acc]
    ELSE LET c == s[pos]
             x == B64Index(c)
         IN  IF c = 61
             THEN IF quad_pos >= 2 /\ quad_pos + pads + 1 >= 4
                  THEN [ok |-> TRUE, bytes |-> acc]
                  ELSE a2b_base64(s, pos + 1, quad_pos, leftchar,
                                  IF quad_pos >= 2 THEN pads + 1 ELSE pads, acc)
             ELSE IF x >= 64
             THEN a2b_base64(s, pos + 1, quad_pos, leftchar, pads, acc)
             ELSE IF quad_pos = 0
             THEN a2b_base64(s, pos + 1, 1, x, 0, acc)
             ELSE IF quad_pos = 1
             THEN a2b_base64(s, pos + 1, 2, x % 16, 0,
                             Append(acc, leftchar * 4 + x \div 16))
             ELSE IF quad_pos = 2
             THEN a2b_base64(s, pos + 1, 3, x % 4, 0,
                             Append(acc, leftchar * 16 + x \div 4))
             ELSE a2b_base64(s, pos + 1, 0, 0, 0, Append(acc, leftchar * 64 + x))

\* base64.b64decode(s)
b64decode(s) == a2b_base64(s, 1, 0, 0, 0, <<>>)

(***************************************************************************)
(* zlib.  The stream is RFC 1950: a two-byte header, deflate blocks, the   *)
(* Adler-32 of the data.  compress is modelled with stored blocks (what    *)
(* zlib writes at level 0); decompress reads the header, any number of     *)
(* stored blocks and the checksum as inflate does.  Huffman-coded blocks   *)
(* (BTYPE 1 and 2) are outside the model: decompress answers "unmodelled"  *)
(* for them and no property is stated about that answer.                   *)
(***************************************************************************)
RECURSIVE AdlerRun(_, _, _)
AdlerRun(b, s1, s2) ==
    IF b = <<>> THEN s2 * 65536 + s1
    ELSE LET n1 == (s1 + Head(b)) % 65521
         IN  AdlerRun(Tail(b), n1, (s2 + n1) % 65521)

adler32(b) == AdlerRun(b, 1, 0)

BigEndian4(n) ==
    <<n \div 16777216, (n \div 65536) % 256, (n \div 256) % 256, n % 256>>

\* zlib.compress(data)
zlib_compress(b) ==
    <<120, 1, 1, Len(b) % 256, Len(b) \div 256,
      255 - (Len(b) % 256), 255 - (Len(b) \div 256)>>
    \o b \o BigEndian4(adler32(b))

\* the deflate blocks from position pos (1-based), data collected in acc
RECURSIVE Inflate(_, _, _)
Inflate(z, pos, acc) ==
    IF pos > Len(z) THEN [res |-> "truncated", data |-> <<>>]
    ELSE LET bfinal == z[pos] % 2
             btype == (z[pos] \div 2) % 4
         IN  IF btype = 3 THEN [res |-> "invalid", data |-> <<>>]
             ELSE IF btype # 0 THEN [res |-> "unmodelled", data |-> <<>>]
             ELSE IF pos + 4 > Len(z) THEN [res |-> "truncated", data |-> <<>>]
             ELSE LET len == z[pos + 1] + 256 * z[pos + 2]
                      nlen == z[pos + 3] + 256 * z[pos + 4]
                  IN  IF len + nlen # 65535 THEN [res |-> "invalid", data |-> <<>>]
                      ELSE IF pos + 4 + len > Len(z)
                      THEN [res |-> "truncated", data |-> <<>>]
                      ELSE LET got == acc \o SubSeq(z, pos + 5, pos + 4 + len)
                               nxt == pos + 5 + len
                           IN  IF bfinal = 0 THEN Inflate(z, nxt, got)
                               ELSE IF nxt + 3 > Len(z)
                               THEN [res |-> "truncated", data |-> <<>>]
                               ELSE IF SubSeq(z, nxt, nxt + 3) # BigEndian4(adler32(got))
                               THEN [res |-> "invalid", data |-> <<>>]
                               ELSE [res |-> "ok", data |-> got]

\* zlib.decompress(data): res is "ok", or "truncated" (Error -5), "invalid"
\* (Error -3), "needdict" (Error 2), or "unmodelled"
zlib_decompress(z) ==
    IF Len(z) < 2 THEN [res |-> "truncated", data |-> <<>>]
    ELSE IF z[1] % 16 # 8 \/ z[1] \div 16 > 7 \/ (z[1] * 256 + z[2]) % 31 # 0
    THEN [res |-> "invalid", data |-> <<>>]
    ELSE IF (z[2] \div 32) % 2 = 1 THEN [res |-> "needdict", data |-> <<>>]
    ELSE Inflate(z, 3, <<>>)

(***************************************************************************)
(* UTF-8.                                                                  *)
(***************************************************************************)
IsCont(b) == b >= 128 /\ b <= 191

\* bytes.decode('utf-8'): the code points, or ok = FALSE (UnicodeDecodeError)
RECURSIVE utf8_decode(_, _)
utf8_decode(b, acc) ==
    IF b = <<>> THEN [ok |-> TRUE, text |-> acc]
    ELSE LET b1 == b[1]
             n == Len(b)
             bad == [ok |-> FALSE, text |-> <<>>]
         IN  IF b1 < 128 THEN utf8_decode(Tail(b), Append(acc, b1))
             ELSE IF b1 >= 194 /\ b1 <= 223
             THEN IF n >= 2 /\ IsCont(b[2])
                  THEN utf8_decode(SubSeq(b, 3, n),
                                   Append(acc, (b1 - 192) * 64 + (b[2] - 128)))
                  ELSE bad
             ELSE IF b1 >= 224 /\ b1 <= 239
             THEN IF /\ n >= 3 /\ IsCont(b[2]) /\ IsCont(b[3])
                     /\ (b1 = 224 => b[2] >= 160)
                     /\ (b1 = 237 => b[2] <= 159)
                  THEN utf8_decode(SubSeq(b, 4, n),
                                   Append(acc, (b1 - 224) * 4096 + (b[2] - 128) * 64
                                               + (b[3] - 128)))
                  ELSE bad
             ELSE IF b1 >= 240 /\ b1 <= 244
             THEN IF /\ n >= 4 /\ IsCont(b[2]) /\ IsCont(b[3]) /\ IsCont(b[4])
                     /\ (b1 = 240 => b[2] >= 144)
                     /\ (b1 = 244 => b[2] <= 143)
                  THEN utf8_decode(SubSeq(b, 5, n),
                                   Append(acc, (b1 - 240) * 262144 + (b[2] - 128) * 4096
                                               + (b[3] - 128) * 64 + (b[4] - 128)))
                  ELSE bad
             ELSE bad

\* str.encode('utf-8') of code points below 0x800
RECURSIVE utf8_encode(_)
utf8_encode(t) ==
    IF t = <<>> THEN <<>>
    ELSE (IF Head(t) < 128 THEN <<Head(t)>>
          ELSE <<192 + (Head(t) \div 64), 128 + (Head(t) % 64)>>)
         \o utf8_encode(Tail(t))

(***************************************************************************)
(* Python values.  A value is [t, v]: an int n is ("int", <<n>>), a str is *)
(* ("str", its code points), a list of ints is ("list", the ints).  Other  *)
(* shapes (nested lists, dicts, floats, negative numbers, bools, None) are *)
(* outside the model: a deserializer that meets one answers "unmodelled"   *)
(* and no property is stated about that answer.                            *)
(***************************************************************************)
PyInt(n)   == [t |-> "int", v |-> <<n>>]
PyStr(cps) == [t |-> "str", v |-> cps]
PyList(ns) == [t |-> "list", v |-> ns]
NoValue    == [t |-> "none", v |-> <<>>]

\* str(n) as ASCII codes
RECURSIVE NumAscii(_)
NumAscii(n) == IF n < 10 THEN <<48 + n>> ELSE NumAscii(n \div 10) \o <<48 + (n % 10)>>

IsAsciiDigit(c) == c >= 48 /\ c <= 57

RECURSIVE DigitRun(_, _)
DigitRun(t, pos) ==
    IF pos > Len(t) \/ ~IsAsciiDigit(t[pos]) THEN 0 ELSE 1 + DigitRun(t, pos + 1)

RECURSIVE AsciiInt(_, _)
AsciiInt(cs, acc) == IF cs = <<>> THEN acc ELSE AsciiInt(Tail(cs), acc * 10 + (Head(cs) - 48))

HexDigit(d) == IF d < 10 THEN 48 + d ELSE 97 + (d - 10)
HexVal(c) ==
    IF c >= 48 /\ c <= 57 THEN c - 48
    ELSE IF c >= 97 /\ c <= 102 THEN c - 97 + 10
    ELSE IF c >= 65 /\ c <= 70 THEN c - 65 + 10 ELSE -1
Hex4(cp) == <<HexDigit(cp \div 4096), HexDigit((cp \div 256) % 16),
              HexDigit((cp \div 16) % 16), HexDigit(cp % 16)>>

(***************************************************************************)
(* json.dumps (ensure_ascii, separators ", ") and json.loads.              *)
(***************************************************************************)
\* json.encoder's ESCAPE_ASCII for one code point below 0x10000
JsonEscape(c) ==
    IF c = 34 THEN <<92, 34>>
    ELSE IF c = 92 THEN <<92, 92>>
    ELSE IF c = 10 THEN <<92, 110>>
    ELSE IF c = 13 THEN <<92, 114>>
    ELSE IF c = 9 THEN <<92, 116>>
    ELSE IF c = 8 THEN <<92, 98>>
    ELSE IF c = 12 THEN <<92, 102>>
    ELSE IF c < 32 \/ c > 126 THEN <<92, 117>> \o Hex4(c)
    ELSE <<c>>

RECURSIVE JsonEscapeAll(_)
JsonEscapeAll(cps) ==
    IF cps = <<>> THEN <<>> ELSE JsonEscape(Head(cps)) \o JsonEscapeAll(Tail(cps))

RECURSIVE JsonJoinInts(_)
JsonJoinInts(ns) ==
    IF ns = <<>> THEN <<>>
    ELSE IF Len(ns) = 1 THEN NumAscii(ns[1])
    ELSE NumAscii(ns[1]) \o <<44, 32>> \o JsonJoinInts(Tail(ns))

\* json.dumps(o): the text, as code points (all ASCII)
json_dumps(o) ==
    IF o.t = "int" THEN NumAscii(o.v[1])
    ELSE IF o.t = "str" THEN <<34>> \o JsonEscapeAll(o.v) \o <<34>>
    ELSE <<91>> \o JsonJoinInts(o.v) \o <<93>>

IsWs(c) == c \in {32, 9, 10, 13}

RECURSIVE SkipWs(_, _)
SkipWs(t, pos) == IF pos <= Len(t) /\ IsWs(t[pos]) THEN SkipWs(t, pos + 1) ELSE pos

JsonFail(e) == [res |-> e, val |-> NoValue, next |-> 0]

\* a number starting at a digit: "0" alone or a run of digits; a fraction or
\* an exponent makes a float
JsonNumber(t, pos) ==
    LET n == IF t[pos] = 48 THEN 1 ELSE DigitRun(t, pos)
        nxt == pos + n
    IN  IF nxt <= Len(t) /\ t[nxt] \in {46, 101, 69} THEN JsonFail("unmodelled")
        ELSE [res |-> "ok", val |-> PyInt(AsciiInt(SubSeq(t, pos, nxt - 1), 0)),
              next |-> nxt]

\* the characters of a string, from the one after the opening quote
RECURSIVE JsonString(_, _, _)
JsonString(t, pos, acc) ==
    IF pos > Len(t) THEN JsonFail("JSONDecodeError")
    ELSE LET c == t[pos]
         IN  IF c = 34 THEN [res |-> "ok", val |-> PyStr(acc), next |-> pos + 1]
             ELSE IF c < 32 THEN JsonFail("JSONDecodeError")
             ELSE IF c # 92 THEN JsonString(t, pos + 1, Append(acc, c))
             ELSE IF pos + 1 > Len(t) THEN JsonFail("JSONDecodeError")
             ELSE LET e == t[pos + 1]
                  IN  IF e = 117
                      THEN IF pos + 5 > Len(t)
                              \/ \E k \in 2..5 : HexVal(t[pos + k]) = -1
                           THEN JsonFail("JSONDecodeError")
                           ELSE LET cp == HexVal(t[pos + 2]) * 4096
                                          + HexVal(t[pos + 3]) * 256
                                          + HexVal(t[pos + 4]) * 16
                                          + HexVal(t[pos + 5])
                                IN  IF cp >= 55296 /\ cp <= 57343
                                    THEN JsonFail("unmodelled")
                                    ELSE JsonString(t, pos + 6, Append(acc, cp))
                      ELSE IF e \in {34, 92, 47}
                      THEN JsonString(t, pos + 2, Append(acc, e))
                      ELSE IF e = 98 THEN JsonString(t, pos + 2, Append(acc, 8))
                      ELSE IF e = 102 THEN JsonString(t, pos + 2, Append(acc, 12))
                      ELSE IF e = 110 THEN JsonString(t, pos + 2, Append(acc, 10))
                      ELSE IF e = 114 THEN JsonString(t, pos + 2, Append(acc, 13))
                      ELSE IF e = 116 THEN JsonString(t, pos + 2, Append(acc, 9))
                      ELSE JsonFail("JSONDecodeError")

RECURSIVE JsonValue(_, _)
RECURSIVE JsonItems(_, _, _)

\* the items of an array, from the first item; acc holds the ints read
JsonItems(t, pos, acc) ==
    LET item == JsonValue(t, pos)
    IN  IF item.res # "ok" THEN item
        ELSE IF item.val.t # "int" THEN JsonFail("unmodelled")
        ELSE LET got == Append(acc, item.val.v[1])
                 p1 == SkipWs(t, item.next)
             IN  IF p1 > Len(t) THEN JsonFail("JSONDecodeError")
                 ELSE IF t[p1] = 93
                 THEN [res |-> "ok", val |-> PyList(got), next |-> p1 + 1]
                 ELSE IF t[p1] = 44 THEN JsonItems(t, SkipWs(t, p1 + 1), got)
                 ELSE JsonFail("JSONDecodeError")

\* scanner.scan_once at pos
JsonValue(t, pos) ==
    IF pos > Len(t) THEN JsonFail("JSONDecodeError")
    ELSE LET c == t[pos]
         IN  IF c = 34 THEN JsonString(t, pos + 1, <<>>)
             ELSE IF IsAsciiDigit(c) THEN JsonNumber(t, pos)
             ELSE IF c = 91
             THEN LET p1 == SkipWs(t, pos + 1)
                  IN  IF p1 <= Len(t) /\ t[p1] = 93
                      THEN [res |-> "ok", val |-> PyList(<<>>), next |-> p1 + 1]
                      ELSE JsonItems(t, p1, <<>>)
             ELSE IF c \in {123, 45, 116, 102, 110, 78, 73}
             THEN JsonFail("unmodelled")
             ELSE JsonFail("JSONDecodeError")

\* json.loads of a str: a value between optional whitespace, nothing after
json_loads_text(t) ==
    LET r == JsonValue(t, SkipWs(t, 1))
    IN  IF r.res # "ok" THEN r
        ELSE IF SkipWs(t, r.next) <= Len(t) THEN JsonFail("JSONDecodeError")
        ELSE r

\* json.loads(s) for s a str (isText) or a byte string, which json decodes
\* first (as UTF-8 unless the first bytes look like UTF-16 or UTF-32)
json_loads(s, isText) ==
    IF isText THEN json_loads_text(s)
    ELSE IF Len(s) >= 2 /\ (s[1] = 0 \/ s[2] = 0 \/ (s[1] >= 254 /\ s[2] >= 254))
    THEN JsonFail("unmodelled")
    ELSE LET d == utf8_decode(s, <<>>)
         IN  IF d.ok THEN json_loads_text(d.text) ELSE JsonFail("UnicodeDecodeError")

(***************************************************************************)
(* cPickle.dumps and cPickle.loads.  six.moves.cPickle is pickle on        *)
(* Python 3 (default protocol 4: binary opcodes, framed) and cPickle on    *)
(* Python 2 (default protocol 0: ASCII opcodes).                           *)
(***************************************************************************)
LittleEndian8(n) == <<n % 256, (n \div 256) % 256, (n \div 65536) % 256,
                      (n \div 16777216) % 256, 0, 0, 0, 0>>

\* protocol 4: BININT1 / BININT2 / BININT; SHORT_BINUNICODE + MEMOIZE;
\* EMPTY_LIST + MEMOIZE, then APPEND for one item, MARK .. APPENDS for more
RECURSIVE SaveInts4(_)
SaveInts4(ns) ==
    IF ns = <<>> THEN <<>>
    ELSE LET n == Head(ns)
         IN  (IF n < 256 THEN <<75, n>>
              ELSE IF n < 65536 THEN <<77, n % 256, n \div 256>>
              ELSE <<74>> \o SubSeq(LittleEndian8(n), 1, 4))
             \o SaveInts4(Tail(ns))

Save4(o) ==
    IF o.t = "int" THEN SaveInts4(o.v)
    ELSE IF o.t = "str"
    THEN <<140, Len(utf8_encode(o.v))>> \o utf8_encode(o.v) \o <<148>>
    ELSE <<93, 148>> \o
         (IF o.v = <<>> THEN <<>>
          ELSE IF Len(o.v) = 1 THEN SaveInts4(o.v) \o <<97>>
          ELSE <<40>> \o SaveInts4(o.v) \o <<101>>)

\* PROTO 4, a FRAME when the frame holds at least 4 bytes, the body, STOP
Dumps4(o) ==
    LET frame == Save4(o) \o <<46>>
    IN  <<128, 4>>
        \o (IF Len(frame) >= 4 THEN <<149>> \o LittleEndian8(Len(frame)) ELSE <<>>)
        \o frame

\* protocol 0: INT line; UNICODE line (raw-unicode-escape) + PUT;
\* MARK LIST PUT, then item APPEND for each item
RawUnicodeEscape(c) ==
    IF c = 92 \/ c = 10 \/ c > 255 THEN <<92, 117>> \o Hex4(c) ELSE <<c>>

RECURSIVE RawUnicodeEscapeAll(_)
RawUnicodeEscapeAll(cps) ==
    IF cps = <<>> THEN <<>>
    ELSE RawUnicodeEscape(Head(cps)) \o RawUnicodeEscapeAll(Tail(cps))

RECURSIVE SaveItems0(_)
SaveItems0(ns) ==
    IF ns = <<>> THEN <<>>
    ELSE <<73>> \o NumAscii(Head(ns)) \o <<10, 97>> \o SaveItems0(Tail(ns))

Dumps0(o) ==
    (IF o.t = "int" THEN <<73>> \o NumAscii(o.v[1]) \o <<10>>
     ELSE IF o.t = "str"
     THEN <<86>> \o RawUnicodeEscapeAll(o.v) \o <<10, 112, 49, 10>>
     ELSE <<40, 108, 112, 49, 10>> \o SaveItems0(o.v))
    \o <<46>>

\* cPickle.dumps(o): a byte string
pickle_dumps(o, py) == IF py = 3 THEN Dumps4(o) ELSE Dumps0(o)

Mark == [t |-> "mark", v |-> <<>>]

\* index of the first byte c at or after pos, 0 when there is none
RECURSIVE FindByte(_, _, _)
FindByte(b, pos, c) ==
    IF pos > Len(b) THEN 0 ELSE IF b[pos] = c THEN pos ELSE FindByte(b, pos + 1, c)

\* index of the topmost MARK of the stack, 0 when there is none
RECURSIVE TopMark(_, _)
TopMark(st, k) == IF k = 0 THEN 0 ELSE IF st[k].t = "mark" THEN k ELSE TopMark(st, k - 1)

RECURSIVE IntsOf(_)
IntsOf(vals) == IF vals = <<>> THEN <<>> ELSE Head(vals).v \o IntsOf(Tail(vals))

AllInts(vals) == \A k \in 1..Len(vals) : vals[k].t = "int"

PickleFail(e) == [res |-> e, val |-> NoValue]

\* the unpickler's loop: one opcode at pos, the stack st.  "UnpicklingError"
\* stands for every way the unpickler rejects the stream (UnpicklingError,
\* EOFError, ValueError, AttributeError)
RECURSIVE Unpickle(_, _, _, _)
Unpickle(b, pos, st, py) ==
    IF pos > Len(b) THEN PickleFail("UnpicklingError")
    ELSE LET op == b[pos]
             n == Len(b)
             depth == Len(st)
             bad == PickleFail("UnpicklingError")
             nl == FindByte(b, pos + 1, 10)
             line == IF nl = 0 THEN <<>> ELSE SubSeq(b, pos + 1, nl - 1)
             mk == TopMark(st, depth)
         IN  IF op = 46      \* STOP
             THEN IF depth = 0 \/ st[depth].t = "mark" THEN bad
                  ELSE [res |-> "ok", val |-> st[depth]]
             ELSE IF op = 128    \* PROTO
             THEN IF pos + 1 > n THEN bad
                  ELSE IF b[pos + 1] > (IF py = 3 THEN 5 ELSE 2) THEN bad
                  ELSE Unpickle(b, pos + 2, st, py)
             ELSE IF op = 149    \* FRAME
             THEN IF py = 2 \/ pos + 8 > n THEN bad
                  ELSE IF \E k \in 3..8 : b[pos + k] # 0 THEN bad
                  ELSE IF pos + 8 + b[pos + 1] + 256 * b[pos + 2] > n THEN bad
                  ELSE Unpickle(b, pos + 9, st, py)
             ELSE IF op = 75     \* BININT1
             THEN IF pos + 1 > n THEN bad
                  ELSE Unpickle(b, pos + 2, Append(st, PyInt(b[pos + 1])), py)
             ELSE IF op = 77     \* BININT2
             THEN IF pos + 2 > n THEN bad
                  ELSE Unpickle(b, pos + 3,
                                Append(st, PyInt(b[pos + 1] + 256 * b[pos + 2])), py)
             ELSE IF op = 74     \* BININT (signed)
             THEN IF pos + 4 > n THEN bad
                  ELSE IF b[pos + 4] >= 128 THEN PickleFail("unmodelled")
                  ELSE Unpickle(b, pos + 5,
                                Append(st, PyInt(b[pos + 1] + 256 * b[pos + 2]
                                                 + 65536 * b[pos + 3]
                                                 + 16777216 * b[pos + 4])), py)
             ELSE IF op = 73     \* INT
             THEN IF nl = 0 \/ line = <<>> THEN bad
                  ELSE IF line = <<48, 48>> \/ line = <<48, 49>>
                          \/ line[1] = 45 \/ line[Len(line)] = 76
                  THEN PickleFail("unmodelled")
                  ELSE IF \E k \in 1..Len(line) : ~IsAsciiDigit(line[k]) THEN bad
                  ELSE Unpickle(b, nl + 1, Append(st, PyInt(AsciiInt(line, 0))), py)
             ELSE IF op = 86     \* UNICODE
             THEN IF nl = 0 THEN bad
                  ELSE IF \E k \in 1..Len(line) : line[k] = 92
                  THEN PickleFail("unmodelled")
                  ELSE Unpickle(b, nl + 1, Append(st, PyStr(line)), py)
             ELSE IF op = 140    \* SHORT_BINUNICODE
             THEN IF py = 2 \/ pos + 1 > n THEN bad
                  ELSE IF pos + 1 + b[pos + 1] > n THEN bad
                  ELSE LET d == utf8_decode(SubSeq(b, pos + 2, pos + 1 + b[pos + 1]), <<>>)
                       IN  IF ~d.ok THEN bad
                           ELSE Unpickle(b, pos + 2 + b[pos + 1],
                                         Append(st, PyStr(d.text)), py)
             ELSE IF op = 93     \* EMPTY_LIST
             THEN Unpickle(b, pos + 1, Append(st, PyList(<<>>)), py)
             ELSE IF op = 40     \* MARK
             THEN Unpickle(b, pos + 1, Append(st, Mark), py)
             ELSE IF op = 148    \* MEMOIZE
             THEN IF py = 2 \/ depth = 0 THEN bad
                  ELSE Unpickle(b, pos + 1, st, py)
             ELSE IF op = 112    \* PUT
             THEN IF nl = 0 \/ line = <<>> \/ depth = 0 THEN bad
                  ELSE IF \E k \in 1..Len(line) : ~IsAsciiDigit(line[k]) THEN bad
                  ELSE Unpickle(b, nl + 1, st, py)
             ELSE IF op = 113    \* BINPUT
             THEN IF pos + 1 > n \/ depth = 0 THEN bad
                  ELSE Unpickle(b, pos + 2, st, py)
             ELSE IF op = 108    \* LIST
             THEN IF mk = 0 THEN bad
                  ELSE LET got == SubSeq(st, mk + 1, depth)
                       IN  IF ~AllInts(got) THEN PickleFail("unmodelled")
                           ELSE Unpickle(b, pos + 1,
                                         Append(SubSeq(st, 1, mk - 1), PyList(IntsOf(got))),
                                         py)
             ELSE IF op = 97     \* APPEND
             THEN IF depth < 2 \/ st[depth].t = "mark" \/ st[depth - 1].t # "list"
                  THEN bad
                  ELSE IF st[depth].t # "int" THEN PickleFail("unmodelled")
                  ELSE Unpickle(b, pos + 1,
                                Append(SubSeq(st, 1, depth - 2),
                                       PyList(Append(st[depth - 1].v, st[depth].v[1]))),
                                py)
             ELSE IF op = 101    \* APPENDS
             THEN IF mk < 2 THEN bad
                  ELSE IF mk = depth THEN Unpickle(b, pos + 1, SubSeq(st, 1, mk - 1), py)
                  ELSE IF st[mk - 1].t # "list" THEN bad
                  ELSE LET got == SubSeq(st, mk + 1, depth)
                       IN  IF ~AllInts(got) THEN PickleFail("unmodelled")
                           ELSE Unpickle(b, pos + 1,
                                         Append(SubSeq(st, 1, mk - 2),
                                                PyList(st[mk - 1].v \o IntsOf(got))),
                                         py)
             ELSE PickleFail("unmodelled")

\* cPickle.loads(s): a str (unicode on Python 2) is refused with TypeError,
\* a byte string is unpickled
pickle_loads(s, isText, py) ==
    IF isText THEN PickleFail("TypeError") ELSE Unpickle(s, 1, <<>>, py)

(***************************************************************************)
(* The codec.  p, the result of dump_compress_encode, and string, the      *)
(* argument of decode_uncompress_load, are [kind, text, chunks, exc]: a    *)
(* str ("text"), a list of str ("chunks"), or an exception ("raise").      *)
(***************************************************************************)
NoChunk  == [set |-> FALSE, n |-> 0]      \* chunk_size=None
Chunk(n) == [set |-> TRUE, n |-> n]

AsText(t)    == [kind |-> "text", text |-> t, chunks |-> <<>>, exc |-> ""]
AsChunks(cs) == [kind |-> "chunks", text |-> <<>>, chunks |-> cs, exc |-> ""]
AsRaise(e)   == [kind |-> "raise", text |-> <<>>, chunks |-> <<>>, exc |-> e]
Nothing      == [kind |-> "none", text |-> <<>>, chunks |-> <<>>, exc |-> ""]

\* range(start, stop, step) for step # 0, as a list
RECURSIVE range(_, _, _)
range(start, stop, step) ==
    IF step > 0 /\ start < stop THEN <<start>> \o range(start + step, stop, step)
    ELSE IF step < 0 /\ start > stop THEN <<start>> \o range(start + step, stop, step)
    ELSE <<>>

PaddedSplit(txt, n) ==
    LET r == range(0, Len(txt) + 1, n)
    IN  [k \in 1..Len(r) |-> Slice(txt, r[k], r[k] + n)]

\* [p[i:i + chunk_size] for i in range(0, len(p), chunk_size)]
Split(txt, n) ==
    LET r == range(0, Len(txt), n)
    IN  [k \in 1..Len(r) |-> Slice(txt, r[k], r[k] + n)]

\* serializer.dumps(obj) as bytes; the str json returns is ASCII, so
\* bytes(data, 'ascii') keeps its codes
Serialize(o, json, py) == IF json THEN json_dumps(o) ELSE pickle_dumps(o, py)

\* the text before chunking: b64encode(zlib.compress(data))
EncodedText(o, json, py) == b64encode(zlib_compress(Serialize(o, json, py)))

dump_compress_encode(o, json, cs, py) ==
    LET txt == EncodedText(o, json, py)
    IN  IF ~cs.set THEN AsText(txt)
        ELSE IF cs.n = 0 THEN AsRaise("ValueError")   \* range() arg 3 must not be zero
        ELSE AsChunks(Split(txt, cs.n))

JoinReversed(data) ==
    IF data.kind = "chunks" THEN Concat(Reverse(data.chunks)) ELSE data.text

\* join(data, ''): ''.join of a list of str, or of the characters of a str
join(data) ==
    IF data.kind = "chunks" THEN Concat(data.chunks)
    ELSE Concat([k \in 1..Len(data.text) |-> <<data.text[k]>>])

LossyText(bytes, u) ==
    IF u.ok THEN [isText |-> TRUE, s |-> u.text] ELSE [isText |-> TRUE, s |-> <<>>]

\* "try: data = data.decode('utf-8') / except UnicodeDecodeError": data is
\* the decoded str, or is left the byte string it was
AfterUtf8(bytes, u) ==
    IF u.ok THEN [isText |-> TRUE, s |-> u.text] ELSE [isText |-> FALSE, s |-> bytes]

DecodeRaise(e, at) ==
    [exc |-> e, stage |-> at, utf8 |-> FALSE, printed |-> FALSE,
     arg |-> [isText |-> FALSE, s |-> <<>>], val |-> NoValue]

NoOut == DecodeRaise("", "none")

\* serializer.loads(data)
Deserialize(data, json, py) ==
    IF json
    THEN IF py = 2 /\ ~data.isText
         THEN LET d == utf8_decode(data.s, <<>>)
              IN  IF d.ok THEN json_loads_text(d.text) ELSE JsonFail("UnicodeDecodeError")
         ELSE json_loads(data.s, data.isText)
    ELSE pickle_loads(data.s, data.isText, py)

\* decode_uncompress_load(string, use_json): the exception raised (exc, ""
\* when none) and the stage that raised it, whether the UTF-8 decoding
\* succeeded, whether the diagnostics were printed, what serializer.loads
\* was given (arg) and what it returned (val)
decode_uncompress_load(str, json, py) ==
    LET raw == b64decode(join(str))
    IN  IF ~raw.ok
        THEN DecodeRaise(IF py = 3 THEN "binascii.Error" ELSE "TypeError", "b64decode")
        ELSE LET z == zlib_decompress(raw.bytes)
             IN  IF z.res = "unmodelled" THEN DecodeRaise("unmodelled", "decompress")
                 ELSE IF z.res # "ok" THEN DecodeRaise("zlib.error", "decompress")
                 ELSE LET u == utf8_decode(z.data, <<>>)
                          data == AfterUtf8(z.data, u)
                          r == Deserialize(data, json, py)
                      IN  [exc |-> IF r.res = "ok" THEN "" ELSE r.res,
                           stage |-> "loads",
                           utf8 |-> u.ok,
                           printed |-> ~u.ok /\ pickle_loads(z.data, FALSE, py).res # "ok",
                           arg |-> data,
                           val |-> r.val]

(***************************************************************************)
(* Inputs of the codec.                                                    *)
(***************************************************************************)
StrChars  == {97, 233}
ListElems == {1, 2}
Values ==
    {PyInt(n) : n \in (0..MaxInt) \cup {300}}
    \cup {PyStr(s) : s \in SeqsUpTo(StrChars, MaxStrLen)}
    \cup {PyList(l) : l \in SeqsUpTo(ListElems, MaxListLen)}
ChunkSizes == {NoChunk} \cup {Chunk(n) : n \in -2..MaxChunk}

\* byte strings a caller can have compressed and encoded by other means:
\* empty, ASCII text that is no JSON, JSON in raw UTF-8, bytes that are
\* neither UTF-8 nor a pickle, a protocol 0 pickle with a Latin-1 byte
RawPayloads ==
    {<<>>, <<104, 105>>, <<34, 195, 169, 34>>, <<200, 65>>, <<195>>,
     <<86, 233, 10, 112, 49, 10, 46>>, <<128, 2, 75, 7, 46>>}
BadChars == {33, 10}     \* "!" and a line feed: not in the base64 alphabet

Direct == [kind |-> "deliver", i |-> 0, j |-> 0]

\* dump_compress_encode(obj, use_json, chunk_size)
Encode ==
    /\ pc = "start"
    /\ p' = dump_compress_encode(obj, use_json, chunk_size, PY)
    /\ pc' = IF p'.kind = "raise" THEN "raised" ELSE "encoded"
    /\ UNCHANGED <<obj, use_json, chunk_size, string, via, out, PY>>
    /\ UNCHANGED <<permVars, chunkVars, verVars>>

\* the caller hands p to the decoder as it is
Deliver ==
    /\ pc = "encoded"
    /\ string' = p
    /\ via' = Direct
    /\ pc' = "sent"
    /\ UNCHANGED <<obj, use_json, chunk_size, p, out, PY>>
    /\ UNCHANGED <<permVars, chunkVars, verVars>>

\* the transport exchanges the chunks at two places
Reorder ==
    /\ pc = "encoded"
    /\ p.kind = "chunks"
    /\ \E i \in 1..Len(p.chunks), j \in 1..Len(p.chunks) :
          /\ i < j
          /\ string' = AsChunks([p.chunks EXCEPT ![i] = p.chunks[j], ![j] = p.chunks[i]])
          /\ via' = [kind |-> "swap", i |-> i, j |-> j]
    /\ pc' = "sent"
    /\ UNCHANGED <<obj, use_json, chunk_size, p, out, PY>>
    /\ UNCHANGED <<permVars, chunkVars, verVars>>

\* the transport inserts a character that is not of the base64 alphabet
Corrupt ==
    /\ pc = "encoded"
    /\ p.kind = "text"
    /\ \E k \in 0..Len(p.text), c \in BadChars :
          /\ string' = AsText(SubSeq(p.text, 1, k) \o <<c>>
                              \o SubSeq(p.text, k + 1, Len(p.text)))
          /\ via' = [kind |-> "insert", i |-> k, j |-> c]
    /\ pc' = "sent"
    /\ UNCHANGED <<obj, use_json, chunk_size, p, out, PY>>
    /\ UNCHANGED <<permVars, chunkVars, verVars>>

\* the transport loses the last characters, which breaks the padding
Truncate ==
    /\ pc = "encoded"
    /\ p.kind = "text"
    /\ \E k \in 1..3 :
          /\ string' = AsText(SubSeq(p.text, 1, Len(p.text) - k))
          /\ via' = [kind |-> "truncate", i |-> k, j |-> 0]
    /\ pc' = "sent"
    /\ UNCHANGED <<obj, use_json, chunk_size, p, out, PY>>
    /\ UNCHANGED <<permVars, chunkVars, verVars>>

\* the caller decodes text that some other encoder made of a byte string
Craft ==
    /\ pc = "start"
    /\ ~chunk_size.set
    /\ \E raw \in RawPayloads :
          /\ string' = AsText(b64encode(zlib_compress(raw)))
          /\ via' = [kind |-> "craft", i |-> Len(raw), j |-> 0]
    /\ pc' = "sent"
    /\ UNCHANGED <<obj, use_json, chunk_size, p, out, PY>>
    /\ UNCHANGED <<permVars, chunkVars, verVars>>

\* decode_uncompress_load(string, use_json)
Decode ==
    /\ pc = "sent"
    /\ out' = decode_uncompress_load(string, use_json, PY)
    /\ pc' = "done"
    /\ UNCHANGED <<obj, use_json, chunk_size, p, string, via, PY>>
    /\ UNCHANGED <<permVars, chunkVars, verVars>>

CodecIdle ==
    /\ obj = NoValue /\ use_json = FALSE /\ chunk_size = NoChunk
    /\ p = Nothing /\ string = Nothing /\ via = Direct /\ out = NoOut
    /\ pc = "idle"

(***************************************************************************)
(* Specifications.                                                         *)
(***************************************************************************)
Init ==
    /\ PY \in {2, 3}
    /\ obj \in Values
    /\ use_json \in BOOLEAN
    /\ chunk_size \in ChunkSizes
    /\ p = Nothing
    /\ string = Nothing
    /\ via = Direct
    /\ out = NoOut
    /\ pc = "start"
    /\ PermIdle /\ ChunkIdle /\ VerIdle

Next == Encode \/ Deliver \/ Reorder \/ Corrupt \/ Truncate \/ Craft \/ Decode

Spec == Init /\ [][Next]_vars

InitPermute ==
    /\ a \in SeqsUpTo(1..MaxElem, MaxPermLen)
    /\ a_in = a
    /\ yielded = <<>>
    /\ ppc = "start"
    /\ ChunkIdle /\ VerIdle /\ CodecIdle /\ PY = 3

NextPermute == PermuteStart \/ PermuteNext

SpecPermute == InitPermute /\ [][NextPermute]_vars

InitChunkList ==
    /\ ls \in SeqsUpTo(1..2, MaxLs)
    /\ items \in 1..MaxItems
    /\ itms = <<>>
    /\ i_cl = 0
    /\ chunks = <<>>
    /\ cpc = "loop"
    /\ PermIdle /\ VerIdle /\ CodecIdle /\ PY = 3

NextChunkList == ChunkListIter \/ ChunkListEnd

SpecChunkList == InitChunkList /\ [][NextChunkList]_vars

InitVersion ==
    /\ PY \in {2, 3}
    /\ ver1 \in Releases
    /\ ver2 \in AllVersions
    /\ greater = "none"
    /\ vpc = "start"
    /\ PermIdle /\ ChunkIdle /\ CodecIdle

NextVersion == Compare

SpecVersion == InitVersion /\ [][NextVersion]_vars

(***************************************************************************)
(* Properties.                                                             *)
(***************************************************************************)
Encoded == pc \in {"encoded", "sent", "done"} /\ via.kind # "craft"

\* C1: decode_uncompress_load(dump_compress_encode(v, use_json, chunk_size),
\* use_json) returns a value equal to v, for both formats and for chunk_size
\* None or positive.
RoundTrip ==
    (pc = "done" /\ via.kind = "deliver" /\ (chunk_size.set => chunk_size.n > 0))
        => (out.exc = "" /\ out.val = obj)

\* the round trip under Python 3 alone
RoundTripPy3 ==
    (PY = 3 /\ pc = "done" /\ via.kind = "deliver"
     /\ (chunk_size.set => chunk_size.n > 0))
        => (out.exc = "" /\ out.val = obj)

\* C2: for encoded text of length L and positive chunk_size n the chunk list
\* has ceil(L/n) chunks, each of length n except the last, which has length
\* L mod n (n when that is 0); no chunk is empty; the chunks concatenated in
\* order are the text.
ChunkShape ==
    (Encoded /\ chunk_size.set /\ chunk_size.n > 0) =>
        LET txt == dump_compress_encode(obj, use_json, NoChunk, PY).text
            L == Len(txt)
            n == chunk_size.n
            cs == p.chunks
        IN  /\ p.kind = "chunks"
            /\ Len(cs) = (L + n - 1) \div n
            /\ \A k \in 1..(Len(cs) - 1) : Len(cs[k]) = n
            /\ Len(cs) > 0 => Len(cs[Len(cs)]) = (IF L % n = 0 THEN n ELSE L % n)
            /\ \A k \in 1..Len(cs) : cs[k] # <<>>
            /\ Concat(cs) = txt

\* a chunk size that divides the length of the text, and several chunks
ChunkShapeWitness ==
    /\ pc = "encoded" /\ chunk_size.set /\ chunk_size.n = 4
    /\ Len(p.chunks) >= 2
    /\ Len(p.chunks) * 4 = Len(Concat(p.chunks))

\* C3: dump_compress_encode with chunk_size <= 0 never returns normally, for
\* zero and for every negative value alike.
BadChunkSizeRaises ==
    (pc # "start" /\ via.kind # "craft" /\ chunk_size.set /\ chunk_size.n <= 0)
        => p.kind = "raise"

ReorderOtherText ==
    (pc = "done" /\ via.kind = "swap" /\ Concat(string.chunks) # Concat(p.chunks))
        => out.exc # ""

\* C5: text with a character outside the base64 alphabet, or with a broken
\* padding, fails at the text-decoding stage, before decompression.
BadTextRejected ==
    (pc = "done" /\ via.kind \in {"insert", "truncate"})
        => (out.stage = "b64decode" /\ out.exc # "")

\* the part of C5 about the padding alone
BadPaddingRejected ==
    (pc = "done" /\ via.kind = "truncate")
        => (out.stage = "b64decode" /\ out.exc # "")

ReleaseAbovePreRelease ==
    (vpc = "done" /\ ver2 \in PreReleasesOf(ver1)) => greater = "True"

\* C8: permute(a) yields sorted(a) first, then each next arrangement in
\* strictly increasing lexicographic order, and when it is exhausted it has
\* yielded every distinct arrangement of a's elements exactly once.
Arrangements(s) == {t \in [1..Len(s) -> {s[k] : k \in 1..Len(s)}] : Sort(t) = Sort(s)}

PermuteAll ==
    /\ ppc \in {"loop", "done"} =>
          /\ yielded[1] = Sort(a_in)
          /\ \A k \in 1..(Len(yielded) - 1) : LexLess(yielded[k], yielded[k + 1])
          /\ \A k \in 1..Len(yielded) : Sort(yielded[k]) = Sort(a_in)
    /\ ppc = "done" =>
          /\ {yielded[k] : k \in 1..Len(yielded)} = Arrangements(a_in)
          /\ Len(yielded) = Cardinality(Arrangements(a_in))

\* an unsorted list with a repeated element, exhausted
PermuteAllWitness ==
    /\ ppc = "done" /\ Len(a_in) = 4 /\ a_in # Sort(a_in)
    /\ Cardinality({a_in[k] : k \in 1..4}) = 3
    /\ Len(yielded) = 12

\* C9: the chunks chunk_list yields, concatenated, are ls; every chunk but
\* the last has items elements, the last has between 1 and items; no chunk
\* is empty and an empty list yields nothing.
ChunkListShape ==
    /\ \A k \in 1..Len(chunks) : chunks[k] # <<>>
    /\ cpc = "done" =>
          /\ Concat(chunks) = ls
          /\ \A k \in 1..(Len(chunks) - 1) : Len(chunks[k]) = items
          /\ Len(chunks) > 0 => Len(chunks[Len(chunks)]) \in 1..items
          /\ ls = <<>> => chunks = <<>>

\* several chunks, the last one short
ChunkListShapeWitness ==
    /\ cpc = "done" /\ Len(chunks) >= 2
    /\ Len(chunks[Len(chunks)]) < items

====
